---- MODULE Spec2Model ----
(***************************************************************************)
(* Model of package compress (src/compress.go): the dimension fitter       *)
(* Compress, the encoders' front ends CompressJPEG, CompressPNG and        *)
(* CompressFile, and the size-targeted quality search CompressToSize.      *)
(*                                                                         *)
(* The image codec, the resampler and the file system are external: the    *)
(* model keeps of them what the package observes (an encode's error and    *)
(* byte count, a file operation's error).                                  *)
(***************************************************************************)
EXTENDS Integers, Sequences, FiniteSets, TLC

VARIABLES
    pc,          \* position of the running call ("idle" before any call)
    heap,        \* the image objects: heap[id] = [w, h], the Bounds().Dx()/Dy()
    args,        \* the grid size the caller built the source image with
    opts,        \* the Options value passed to the call
    ret,         \* the call's return value: [img, data, err]
    encLog,      \* the jpeg.Encode invocations of the call: <<[q, err], ...>>
    quality,     \* CompressToSize's local variable quality
    buf,         \* CompressToSize's current limitedBuffer: [data, limit]
    profile,     \* what the source image's pixels make the encoder produce
    target,      \* CompressToSize's targetBytes
    prev,        \* result and invocations of the previous identical call
    handles,     \* the files CompressFile holds open
    failedSteps, \* the steps of CompressFile that returned an error
    pngLog       \* the png Encode invocations of the call: <<[level, img, err]>>

vars == <<pc, heap, args, opts, ret, encLog, quality, buf, profile, target,
          prev, handles, failedSteps, pngLog>>

----------------------------------------------------------------------------
(* Bounds of the model.                                                    *)

\* Grid sides and maxima are drawn from 1..MaxDim (maxima also from -1 and 0).
MaxDim == 6
\* CompressJPEG / CompressFile grids have sides in 1..MaxEncDim.
MaxEncDim == 2
\* Options.Quality is drawn from -MaxQualityExcess .. 100 + MaxQualityExcess.
MaxQualityExcess == 2
\* The encoder emits 0..MaxLen bytes; targetBytes is drawn from -1..MaxLen.
MaxLen == 2

----------------------------------------------------------------------------
(* float64 arithmetic of Compress, in integers.                            *)

\* Bits of a float64 significand after the leading one.
Float64FractionBits == 52

RECURSIVE Pow2(_)
Pow2(n) == IF n <= 0 THEN 1 ELSE 2 * Pow2(n - 1)

\* floor(log2(k)) for k >= 1.
RECURSIVE Log2Floor(_)
Log2Floor(k) == IF k < 2 THEN 0 ELSE 1 + Log2Floor(k \div 2)

\* 2^n mod m.
RECURSIVE PowMod2(_, _)
PowMod2(n, m) == IF n <= 0 THEN 1 % m ELSE (2 * PowMod2(n - 1, m)) % m

\* The least E >= from with num * 2^E >= den.
RECURSIVE ShiftUp(_, _, _)
ShiftUp(num, den, from) ==
    IF num * Pow2(from) >= den THEN from ELSE ShiftUp(num, den, from + 1)

\* The binary exponent e of num/den: 2^e <= num/den < 2^(e+1).
BinExp(num, den) ==
    IF num >= den THEN Log2Floor(num \div den) ELSE 0 - ShiftUp(num, den, 0)

\* ratio := float64(num) / float64(den), as the sign of its rounding error:
\* the quotient's significand is num * 2^s / den rounded to nearest-even, with
\* s = 52 - e; rho is the remainder of that division.  down: the quotient
\* was rounded down (ratio < num/den); exp: the binary exponent e.
Float64Div(num, den) ==
    LET s     == Float64FractionBits - BinExp(num, den)
        rho   == (num * PowMod2(s, den)) % den
        \* parity of floor(num * 2^s / den), for a tie
        half  == (num * PowMod2(s - 1, den)) % den
        qOdd  == (2 * half) \div den = 1
    IN  [down |-> (rho > 0) /\ ((2 * rho < den) \/ (2 * rho = den /\ ~qOdd)),
         rho  |-> rho,
         exp  |-> BinExp(num, den)]

\* int(float64(x) * ratio) with ratio == float64(num) / float64(den), for
\* x >= 0, num >= 1, den >= 1 (all far below 2^26, so every conversion to
\* float64 is exact).  The exact product x*num/den lies at least 1/den from
\* the next integer unless it is an integer k; the rounding errors are below
\* that, so the truncation is floor(x*num/den) unless the product is an
\* integer k and float64(x)*ratio rounds to a float64 below k.  That happens
\* when ratio was rounded down and the exact x*ratio lies more than half a
\* float64 spacing below k (the spacing below a power of two is halved; a tie
\* rounds to k, whose significand is even).
ScaleTrunc(x, num, den) ==
    LET k     == (x * num) \div den
        rem   == (x * num) % den
        ratio == Float64Div(num, den)
    IN  IF rem # 0 \/ k = 0 \/ ~ratio.down THEN k
        ELSE LET f    == Log2Floor(k)
                 gap  == IF Pow2(f) = k THEN 4 ELSE 2
             IN  IF gap * x * ratio.rho > den * Pow2(f - ratio.exp)
                 THEN k - 1 ELSE k

----------------------------------------------------------------------------
(* Compress: the dimension fitter.                                         *)

Options(q, mw, mh) == [Quality |-> q, MaxWidth |-> mw, MaxHeight |-> mh]

\* DefaultOptions(): quality 80, no maxima.
DefaultOptions == Options(80, 0, 0)

\* The width pass: <<newW, newH>> after the first "if".
WidthPass(w, h, maxWidth) ==
    IF maxWidth > 0 /\ w > maxWidth
    THEN <<maxWidth, ScaleTrunc(h, maxWidth, w)>>
    ELSE <<w, h>>

\* The height pass: <<newW, newH>> after the second "if".
HeightPass(newW, newH, maxHeight) ==
    IF maxHeight > 0 /\ newH > maxHeight
    THEN <<ScaleTrunc(newW, maxHeight, newH), maxHeight>>
    ELSE <<newW, newH>>

\* A fitter whose height pass is the "else" branch of the width pass.
FitDimsElseIf(w, h, maxWidth, maxHeight) ==
    IF maxWidth > 0 /\ w > maxWidth
    THEN WidthPass(w, h, maxWidth)
    ELSE HeightPass(w, h, maxHeight)

\* newW, newH as Compress holds them when it compares them with w, h.
FitDims(w, h, maxWidth, maxHeight) ==
    LET p == WidthPass(w, h, maxWidth)
    IN  HeightPass(p[1], p[2], maxHeight)

\* A fitter that resamples whenever a maximum is set.
SameSizeNever(w, h, newW, newH) == FALSE

\* The test "newW == w && newH == h" that returns src.
SameSize(w, h, newW, newH) == newW = w /\ newH = h

\* image.NewRGBA(image.Rect(0, 0, newW, newH)): a new object of that size.
NewRGBA(hp, newW, newH) == Append(hp, [w |-> newW, h |-> newH])

\* Compress(src, opts) on the heap hp: the heap it leaves and the image it
\* returns.  draw.CatmullRom.Scale writes dst only.
Compress(hp, src, o) ==
    IF o.MaxWidth <= 0 /\ o.MaxHeight <= 0
    THEN [heap |-> hp, img |-> src]
    ELSE LET w == hp[src].w
             h == hp[src].h
             d == FitDims(w, h, o.MaxWidth, o.MaxHeight)
         IN  IF SameSize(w, h, d[1], d[2])
             THEN [heap |-> hp, img |-> src]
             ELSE [heap |-> NewRGBA(hp, d[1], d[2]), img |-> Len(hp) + 1]

----------------------------------------------------------------------------
(* CompressJPEG: quality normalisation.                                    *)

\* Quality levels for easy reference.
QualityLow == 30
QualityMedium == 60
QualityHigh == 80
QualityBest == 95

DefaultQuality == 80
MaxQuality == 100

\* A normalisation that also replaces 100.
NormalizeQualityExclusive(q) ==
    IF q <= 0 \/ q >= MaxQuality THEN DefaultQuality ELSE q

\* The quality CompressJPEG hands to jpeg.Encode.
NormalizeQuality(q) ==
    IF q <= 0 \/ q > MaxQuality THEN DefaultQuality ELSE q

----------------------------------------------------------------------------
(* CompressToSize: the quality search.                                     *)

StartQuality == 95
MinQuality == 10
QualityStep == 5

\* The quality levels of the loop, in the order the loop meets them.
Levels == [i \in 1..((StartQuality - MinQuality) \div QualityStep + 1) |->
              StartQuality - QualityStep * (i - 1)]
LevelSet == {Levels[i] : i \in DOMAIN Levels}

\* What the encoder makes of the source image at quality q: a byte count, or
\* -1 for an encode error.  The pixels are abstracted to a profile
\* [cut, above, below]: qualities above cut give `above`, the others `below`.
EncodedLen(pf, q) == IF q > pf.cut THEN pf.above ELSE pf.below

\* jpeg.Encode(buf, src, &jpeg.Options{Quality: q}) for an in-memory buffer:
\* the error and the bytes written.  Streams made at different qualities
\* differ (the quantisation tables are part of the stream).
JpegEncode(pf, q) ==
    LET n == EncodedLen(pf, q)
    IN  IF n < 0 THEN [err |-> TRUE, data |-> <<>>]
        ELSE [err |-> FALSE, data |-> [i \in 1..n |-> q]]

\* &limitedBuffer{limit: targetBytes * 2}
limitedBuffer(t) == [data |-> <<>>, limit |-> t * 2]

\* (*limitedBuffer).Write: appends, whatever the limit.
Write(b, p) == [b EXCEPT !.data = @ \o p]

\* A size test that excludes the target itself.
FitsStrict(b, t) == Len(b.data) < t

\* A size test against the buffer's limit.
FitsLimit(b, t) == Len(b.data) <= b.limit

\* buf.Len() <= targetBytes
Fits(b, t) == Len(b.data) <= t

\* A step of 10.
NextQualityTen(q) == q - 2 * QualityStep

\* quality -= 5
NextQuality(q) == q - QualityStep

\* A loop that moves to the next quality when an encode fails.
AfterEncodeSkip(e, b, q, t) ==
    IF e.err THEN [done |-> FALSE, ret |-> [img |-> 0, data |-> <<>>, err |-> FALSE],
                   quality |-> NextQuality(q)]
    ELSE IF Fits(b, t)
         THEN [done |-> TRUE, ret |-> [img |-> 0, data |-> b.data, err |-> FALSE],
               quality |-> q]
         ELSE [done |-> FALSE, ret |-> [img |-> 0, data |-> <<>>, err |-> FALSE],
               quality |-> NextQuality(q)]

\* The loop body after jpeg.Encode returned e into buffer b: return the error,
\* return the bytes, or step the quality.
AfterEncode(e, b, q, t) ==
    IF e.err
    THEN [done |-> TRUE, ret |-> [img |-> 0, data |-> <<>>, err |-> TRUE],
          quality |-> q]
    ELSE IF Fits(b, t)
         THEN [done |-> TRUE, ret |-> [img |-> 0, data |-> b.data, err |-> FALSE],
               quality |-> q]
         ELSE [done |-> FALSE, ret |-> [img |-> 0, data |-> <<>>, err |-> FALSE],
               quality |-> NextQuality(q)]

\* A fallback that encodes at the quality the loop ended with.
FinalQualityLoopVar(q) == q

\* The quality of the encode after the loop: minQuality.
FinalQuality(q) == MinQuality

----------------------------------------------------------------------------
(* Inputs.                                                                 *)

\* Sides of the documented examples, and of the smallest square grid (22 at
\* a maximum of 15) whose float64 product falls below the exact quotient.
ScenarioDims == {22, 2000, 3000, 4000}
ScenarioLimits == {15, 1000, 1920}

Dims == (1..MaxDim) \cup ScenarioDims
Limits == (-1..MaxDim) \cup ScenarioLimits
EncDims == 1..MaxEncDim
EncLimits == 0..MaxEncDim
Qualities == (0 - MaxQualityExcess)..(MaxQuality + MaxQualityExcess)
\* CompressFile is called with a named quality level, or with the zero value.
FileQualities == {0, QualityLow, QualityMedium, QualityHigh, QualityBest}
Lens == -1..MaxLen
Targets == -1..MaxLen
Profiles == [cut : LevelSet, above : Lens, below : Lens]

NoRet == [img |-> 0, data |-> <<>>, err |-> FALSE]
NoPrev == [set |-> FALSE, ret |-> NoRet, log |-> <<>>]
NoProfile == [cut |-> MinQuality, above |-> 0, below |-> 0]

Init ==
    /\ pc = "idle"
    /\ heap = <<>>
    /\ args = [w |-> 0, h |-> 0]
    /\ opts = Options(0, 0, 0)
    /\ ret = NoRet
    /\ encLog = <<>>
    /\ quality = 0
    /\ buf = limitedBuffer(0)
    /\ profile = NoProfile
    /\ target = 0
    /\ prev = NoPrev
    /\ handles = {}
    /\ failedSteps = {}
    /\ pngLog = <<>>

----------------------------------------------------------------------------
(* Compress.                                                               *)

\* The caller builds a w x h image and calls Compress(src, opts).
CallCompress ==
    /\ pc = "idle"
    /\ \E w \in Dims, h \in Dims, mw \in Limits, mh \in Limits :
          /\ heap' = <<[w |-> w, h |-> h]>>
          /\ args' = [w |-> w, h |-> h]
          /\ opts' = Options(0, mw, mh)
    /\ pc' = "Compress"
    /\ UNCHANGED <<ret, encLog, quality, buf, profile, target, prev, handles,
                   failedSteps>>
    /\ UNCHANGED pngLog

\* Compress runs and returns.
CompressReturn ==
    /\ pc = "Compress"
    /\ LET r == Compress(heap, 1, opts)
       IN  /\ heap' = r.heap
           /\ ret' = [img |-> r.img, data |-> <<>>, err |-> FALSE]
    /\ pc' = "CompressDone"
    /\ UNCHANGED <<args, opts, encLog, quality, buf, profile, target, prev,
                   handles, failedSteps>>
    /\ UNCHANGED pngLog

----------------------------------------------------------------------------
(* CompressJPEG.                                                           *)

\* CompressJPEG(src, w, opts) on heap hp when jpeg.Encode returns error e:
\* the heap, the image and quality handed to the encoder, the error returned.
CompressJPEG(hp, src, o, e) ==
    LET r == Compress(hp, src, o)
    IN  [heap |-> r.heap,
         call |-> [q |-> NormalizeQuality(o.Quality), img |-> r.img, err |-> e],
         err  |-> e]

\* The caller builds an image and calls CompressJPEG(src, w, opts).
CallCompressJPEG ==
    /\ pc = "idle"
    /\ \E w \in EncDims, h \in EncDims, mw \in EncLimits, mh \in EncLimits,
          q \in Qualities :
          /\ heap' = <<[w |-> w, h |-> h]>>
          /\ args' = [w |-> w, h |-> h]
          /\ opts' = Options(q, mw, mh)
    /\ pc' = "CompressJPEG"
    /\ UNCHANGED <<ret, encLog, quality, buf, profile, target, prev, handles,
                   failedSteps>>
    /\ UNCHANGED pngLog

\* CompressJPEG runs and returns; the encoder or the writer may fail.
CompressJPEGReturn ==
    /\ pc = "CompressJPEG"
    /\ \E e \in BOOLEAN :
          LET r == CompressJPEG(heap, 1, opts, e)
          IN  /\ heap' = r.heap
              /\ encLog' = Append(encLog, r.call)
              /\ ret' = [img |-> 0, data |-> <<>>, err |-> r.err]
    /\ pc' = "CompressJPEGDone"
    /\ UNCHANGED <<args, opts, quality, buf, profile, target, prev, handles,
                   failedSteps>>
    /\ UNCHANGED pngLog

----------------------------------------------------------------------------
(* CompressPNG.                                                            *)

\* CompressPNG(src, w, opts) on heap hp when the png encoder returns error e:
\* the heap, the image and compression level handed to the encoder, the
\* error returned.  opts.Quality is not read.
CompressPNG(hp, src, o, e) ==
    LET r == Compress(hp, src, o)
    IN  [heap |-> r.heap,
         call |-> [level |-> "BestCompression", img |-> r.img, err |-> e],
         err  |-> e]

\* The caller builds an image and calls CompressPNG(src, w, opts).
CallCompressPNG ==
    /\ pc = "idle"
    /\ \E w \in EncDims, h \in EncDims :
          /\ heap' = <<[w |-> w, h |-> h]>>
          /\ args' = [w |-> w, h |-> h]
    /\ \E o \in {DefaultOptions} \cup
                {Options(q, mw, mh) : q \in Qualities, mw \in EncLimits,
                                      mh \in EncLimits} :
          opts' = o
    /\ pc' = "CompressPNG"
    /\ UNCHANGED <<ret, encLog, quality, buf, profile, target, prev, handles,
                   failedSteps, pngLog>>

\* CompressPNG runs and returns; the encoder or the writer may fail.
CompressPNGReturn ==
    /\ pc = "CompressPNG"
    /\ \E e \in BOOLEAN :
          LET r == CompressPNG(heap, 1, opts, e)
          IN  /\ heap' = r.heap
              /\ pngLog' = Append(pngLog, r.call)
              /\ ret' = [img |-> 0, data |-> <<>>, err |-> r.err]
    /\ pc' = "CompressPNGDone"
    /\ UNCHANGED <<args, opts, encLog, quality, buf, profile, target, prev,
                   handles, failedSteps>>

----------------------------------------------------------------------------
(* CompressFile.                                                           *)

\* The caller calls CompressFile(inputPath, outputPath, opts).
CallCompressFile ==
    /\ pc = "idle"
    /\ \E mw \in EncLimits, mh \in EncLimits, q \in FileQualities :
          opts' = Options(q, mw, mh)
    /\ pc' = "FileOpen"
    /\ UNCHANGED <<heap, args, ret, encLog, quality, buf, profile, target,
                   prev, handles, failedSteps>>
    /\ UNCHANGED pngLog

\* in, err := os.Open(inputPath); on error return it (nothing is deferred).
FileOpen ==
    /\ pc = "FileOpen"
    /\ \E e \in BOOLEAN :
          IF e THEN /\ ret' = [img |-> 0, data |-> <<>>, err |-> TRUE]
                    /\ failedSteps' = failedSteps \cup {"open"}
                    /\ handles' = handles
                    /\ pc' = "FileDone"
          ELSE /\ handles' = handles \cup {"in"}
               /\ pc' = "FileDecode"
               /\ UNCHANGED <<ret, failedSteps>>
    /\ UNCHANGED <<heap, args, opts, encLog, quality, buf, profile, target,
                   prev>>
    /\ UNCHANGED pngLog

\* src, _, err := image.Decode(in); on error return it, in.Close is deferred.
FileDecode ==
    /\ pc = "FileDecode"
    /\ \/ /\ ret' = [img |-> 0, data |-> <<>>, err |-> TRUE]
          /\ failedSteps' = failedSteps \cup {"decode"}
          /\ pc' = "FileCloseIn"
          /\ UNCHANGED <<heap, args>>
       \/ /\ \E w \in EncDims, h \in EncDims :
                /\ heap' = <<[w |-> w, h |-> h]>>
                /\ args' = [w |-> w, h |-> h]
          /\ pc' = "FileCreate"
          /\ UNCHANGED <<ret, failedSteps>>
    /\ UNCHANGED <<opts, encLog, quality, buf, profile, target, prev, handles>>
    /\ UNCHANGED pngLog

\* out, err := os.Create(outputPath); on error return it.
FileCreate ==
    /\ pc = "FileCreate"
    /\ \E e \in BOOLEAN :
          IF e THEN /\ ret' = [img |-> 0, data |-> <<>>, err |-> TRUE]
                    /\ failedSteps' = failedSteps \cup {"create"}
                    /\ handles' = handles
                    /\ pc' = "FileCloseIn"
          ELSE /\ handles' = handles \cup {"out"}
               /\ pc' = "FileEncode"
               /\ UNCHANGED <<ret, failedSteps>>
    /\ UNCHANGED <<heap, args, opts, encLog, quality, buf, profile, target,
                   prev>>
    /\ UNCHANGED pngLog

\* return CompressJPEG(src, out, opts): the result is fixed here, before the
\* deferred calls run.
FileEncode ==
    /\ pc = "FileEncode"
    /\ \E e \in BOOLEAN :
          LET r == CompressJPEG(heap, 1, opts, e)
          IN  /\ heap' = r.heap
              /\ encLog' = Append(encLog, r.call)
              /\ ret' = [img |-> 0, data |-> <<>>, err |-> r.err]
              /\ failedSteps' = IF e THEN failedSteps \cup {"encode"}
                                ELSE failedSteps
    /\ pc' = "FileCloseOut"
    /\ UNCHANGED <<args, opts, quality, buf, profile, target, prev, handles>>
    /\ UNCHANGED pngLog

\* defer out.Close(): its error is dropped.
FileCloseOut ==
    /\ pc = "FileCloseOut"
    /\ \E e \in BOOLEAN :
          failedSteps' = IF e THEN failedSteps \cup {"close out"}
                         ELSE failedSteps
    /\ handles' = handles \ {"out"}
    /\ pc' = "FileCloseIn"
    /\ UNCHANGED <<heap, args, opts, ret, encLog, quality, buf, profile,
                   target, prev>>
    /\ UNCHANGED pngLog

\* defer in.Close(): its error is dropped; then the call returns ret.
FileCloseIn ==
    /\ pc = "FileCloseIn"
    /\ \E e \in BOOLEAN :
          failedSteps' = IF e THEN failedSteps \cup {"close in"}
                         ELSE failedSteps
    /\ handles' = handles \ {"in"}
    /\ pc' = "FileDone"
    /\ UNCHANGED <<heap, args, opts, ret, encLog, quality, buf, profile,
                   target, prev>>
    /\ UNCHANGED pngLog

----------------------------------------------------------------------------
(* CompressToSize.                                                         *)

\* The caller calls CompressToSize(src, targetBytes): quality := 95.
CallCompressToSize ==
    /\ pc = "idle"
    /\ \E pf \in Profiles, t \in Targets :
          /\ profile' = pf
          /\ target' = t
    /\ quality' = StartQuality
    /\ pc' = "ToSizeLoop"
    /\ UNCHANGED <<heap, args, opts, ret, encLog, buf, prev, handles,
                   failedSteps>>
    /\ UNCHANGED pngLog

\* One iteration of "for quality >= minQuality".
ToSizeLoop ==
    /\ pc = "ToSizeLoop"
    /\ quality >= MinQuality
    /\ LET e == JpegEncode(profile, quality)
           b == Write(limitedBuffer(target), e.data)
           a == AfterEncode(e, b, quality, target)
       IN  /\ buf' = b
           /\ encLog' = Append(encLog, [q |-> quality, img |-> 0, err |-> e.err])
           /\ ret' = a.ret
           /\ quality' = a.quality
           /\ pc' = IF a.done THEN "ToSizeDone" ELSE "ToSizeLoop"
    /\ UNCHANGED <<heap, args, opts, profile, target, prev, handles,
                   failedSteps>>
    /\ UNCHANGED pngLog

\* The loop ended without a return: the encode at minQuality, returned
\* whatever its length.
ToSizeFinal ==
    /\ pc = "ToSizeLoop"
    /\ ~(quality >= MinQuality)
    /\ LET q == FinalQuality(quality)
           e == JpegEncode(profile, q)
           b == Write(limitedBuffer(target), e.data)
       IN  /\ buf' = b
           /\ encLog' = Append(encLog, [q |-> q, img |-> 0, err |-> e.err])
           /\ ret' = IF e.err THEN [img |-> 0, data |-> <<>>, err |-> TRUE]
                     ELSE [img |-> 0, data |-> b.data, err |-> FALSE]
    /\ pc' = "ToSizeDone"
    /\ UNCHANGED <<heap, args, opts, quality, profile, target, prev, handles,
                   failedSteps>>
    /\ UNCHANGED pngLog

\* The caller calls CompressToSize again with the same image and target.
CallCompressToSizeAgain ==
    /\ pc = "ToSizeDone"
    /\ ~prev.set
    /\ prev' = [set |-> TRUE, ret |-> ret, log |-> encLog]
    /\ ret' = NoRet
    /\ encLog' = <<>>
    /\ buf' = limitedBuffer(0)
    /\ quality' = StartQuality
    /\ pc' = "ToSizeLoop"
    /\ UNCHANGED <<heap, args, opts, profile, target, handles, failedSteps>>
    /\ UNCHANGED pngLog

----------------------------------------------------------------------------

Next ==
    \/ CallCompress
    \/ CompressReturn
    \/ CallCompressJPEG
    \/ CompressJPEGReturn
    \/ CallCompressPNG
    \/ CompressPNGReturn
    \/ CallCompressFile
    \/ FileOpen
    \/ FileDecode
    \/ FileCreate
    \/ FileEncode
    \/ FileCloseOut
    \/ FileCloseIn
    \/ CallCompressToSize
    \/ ToSizeLoop
    \/ ToSizeFinal
    \/ CallCompressToSizeAgain

Spec == Init /\ [][Next]_vars

----------------------------------------------------------------------------
(* Properties of CompressToSize.                                           *)

\* The levels (as indices of Levels) whose encode succeeds within the target.
FitLevels ==
    {i \in DOMAIN Levels :
        EncodedLen(profile, Levels[i]) >= 0 /\ EncodedLen(profile, Levels[i]) <= target}

FirstFit == CHOOSE i \in FitLevels : \A j \in FitLevels : i <= j

NoEncodeFails == \A i \in DOMAIN Levels : EncodedLen(profile, Levels[i]) >= 0

EncoderNeverEmpty == \A i \in DOMAIN Levels : EncodedLen(profile, Levels[i]) # 0

\* The qualities the encoder was invoked with, in order.
Tried == [i \in DOMAIN encLog |-> encLog[i].q]

IsPrefix(s, t) == Len(s) <= Len(t) /\ \A i \in DOMAIN s : s[i] = t[i]

\* C1: first hit wins.  When some level of 95, 90, ..., 10 encodes to at most
\* targetBytes and no level's encode fails, CompressToSize returns success
\* with exactly the bytes made at the highest such level, which is the last
\* level the encoder was invoked with.
C1_FirstHitWins ==
    (pc = "ToSizeDone" /\ FitLevels # {} /\ NoEncodeFails) =>
        /\ ~ret.err
        /\ ret.data = JpegEncode(profile, Levels[FirstFit]).data
        /\ Tried[Len(Tried)] = Levels[FirstFit]
        /\ Len(Tried) = FirstFit

\* A call returned the bytes of a level below 95, reached after oversize
\* encodes, while lower levels fit too.
C1_Witness ==
    /\ pc = "ToSizeDone"
    /\ NoEncodeFails
    /\ Cardinality(FitLevels) > 1
    /\ FirstFit > 1
    /\ ~ret.err
    /\ Len(ret.data) > 0
    /\ ret.data = JpegEncode(profile, Levels[FirstFit]).data

\* C2: a successful return, with an encoder that never emits an empty stream,
\* is non-empty and is either an encoding of at most targetBytes bytes or,
\* when no level fits (always so for targetBytes <= 0), the encoding made at
\* quality 10, longer than targetBytes.
C2_SuccessPostcondition ==
    (pc = "ToSizeDone" /\ ~ret.err /\ EncoderNeverEmpty) =>
        /\ ret.data # <<>>
        /\ \/ Len(ret.data) <= target
           \/ /\ FitLevels = {}
              /\ ret.data = JpegEncode(profile, 10).data
              /\ Len(ret.data) > target
        /\ target <= 0 => (FitLevels = {} /\ ret.data = JpegEncode(profile, 10).data)

\* A call with a positive target that no level meets returned the oversize
\* quality-10 encoding as success.
C2_Witness ==
    /\ pc = "ToSizeDone"
    /\ ~ret.err
    /\ EncoderNeverEmpty
    /\ target > 0
    /\ FitLevels = {}
    /\ ret.data = JpegEncode(profile, 10).data
    /\ Len(ret.data) > target

\* C7: an encode failure ends the call at once: a failed invocation is the
\* last invocation of the call, and the call has returned the error with no
\* bytes.
C7_EncodeErrorPropagates ==
    pc \in {"ToSizeLoop", "ToSizeDone"} =>
        \A i \in DOMAIN encLog :
            encLog[i].err =>
                /\ i = Len(encLog)
                /\ pc = "ToSizeDone"
                /\ ret.err
                /\ ret.data = <<>>

\* A call failed at a level below 95, with lower levels left untried.
C7_Witness ==
    /\ pc = "ToSizeDone"
    /\ ret.err
    /\ ret.data = <<>>
    /\ Len(encLog) > 1
    /\ Len(encLog) < Len(Levels)
    /\ encLog[Len(encLog)].err

\* The levels of the loop followed by the encode after the loop.
LevelsThenFinal == Levels \o <<10>>

\* The invocation i of the call ended the search: it failed or it fit.
Ends(i) ==
    \/ encLog[i].err
    \/ EncodedLen(profile, encLog[i].q) <= target

\* Two calls with the same image and target invoked the encoder alike and
\* returned the same.
Deterministic ==
    (pc = "ToSizeDone" /\ prev.set) => (prev.ret = ret /\ prev.log = encLog)

\* C10 as stated: the qualities the encoder is invoked with are an initial
\* segment of 95, 90, ..., 15, 10, ending at the first level that fits or
\* fails, and a repeated call invokes the same and returns the same.
C10_Original ==
    /\ pc \in {"ToSizeLoop", "ToSizeDone"} =>
          /\ IsPrefix(Tried, Levels)
          /\ \A i \in DOMAIN encLog : i < Len(encLog) => ~Ends(i)
          /\ pc = "ToSizeDone" => Ends(Len(encLog))
    /\ Deterministic

\* C10 amended: the qualities the encoder is invoked with are an initial
\* segment of 95, 90, ..., 15, 10, 10 (quality 10 is encoded a second time
\* when no level fits); the segment ends at the first level that fits or
\* fails, or else with the second encode at 10; a repeated call invokes the
\* same and returns the same.
C10_TriedSequence ==
    /\ pc \in {"ToSizeLoop", "ToSizeDone"} =>
          /\ IsPrefix(Tried, LevelsThenFinal)
          /\ \A i \in DOMAIN encLog :
                (i < Len(encLog) /\ i <= Len(Levels)) => ~Ends(i)
          /\ pc = "ToSizeDone" =>
                (Ends(Len(encLog)) \/ Len(encLog) = Len(Levels) + 1)
          /\ pc = "ToSizeLoop" => Len(encLog) <= Len(Levels)
    /\ Deterministic

\* A repeated call in which no level fit has invoked the encoder 19 times.
C10_Witness ==
    /\ pc = "ToSizeDone"
    /\ prev.set
    /\ Tried = LevelsThenFinal
    /\ prev.log = encLog
    /\ ~ret.err

----------------------------------------------------------------------------
(* Properties of Compress.                                                 *)

InW == args.w
InH == args.h
OutW == heap[ret.img].w
OutH == heap[ret.img].h

Abs(x) == IF x < 0 THEN 0 - x ELSE x
Max(a, b) == IF a >= b THEN a ELSE b

\* No active maximum is exceeded by the input.
WithinMaxima ==
    /\ opts.MaxWidth <= 0 \/ InW <= opts.MaxWidth
    /\ opts.MaxHeight <= 0 \/ InH <= opts.MaxHeight

\* C3: the grid Compress returns exceeds no active maximum: its width is at
\* most MaxWidth when MaxWidth > 0 and its height at most MaxHeight when
\* MaxHeight > 0, also after both passes.
C3_WithinMaxima ==
    pc = "CompressDone" =>
        /\ opts.MaxWidth > 0 => OutW <= opts.MaxWidth
        /\ opts.MaxHeight > 0 => OutH <= opts.MaxHeight

\* Both passes ran: the width was over MaxWidth, and the height the width
\* pass left was still over MaxHeight.
C3_Witness ==
    /\ pc = "CompressDone"
    /\ opts.MaxWidth > 0
    /\ InW > opts.MaxWidth
    /\ opts.MaxHeight > 0
    /\ WidthPass(InW, InH, opts.MaxWidth)[2] > opts.MaxHeight
    /\ OutW < opts.MaxWidth
    /\ OutH = opts.MaxHeight

\* C4 as stated: the output keeps the aspect ratio within truncation
\* tolerance: |outW*h - outH*w| < max(w, h).
C4_AspectRatio ==
    pc = "CompressDone" =>
        Abs(OutW * InH - OutH * InW) < Max(InW, InH)

\* The two truncating passes in exact integer arithmetic.
ScaleFloor(x, num, den) == (x * num) \div den

FitDimsFloor(w, h, maxWidth, maxHeight) ==
    LET cur == IF maxWidth > 0 /\ w > maxWidth
               THEN <<maxWidth, ScaleFloor(h, maxWidth, w)>>
               ELSE <<w, h>>
    IN  IF maxHeight > 0 /\ cur[2] > maxHeight
        THEN <<ScaleFloor(cur[1], maxHeight, cur[2]), maxHeight>>
        ELSE cur

\* C5 as stated: the size Compress returns is that of two sequential
\* truncating passes, width first, each the floor of the exact quotient:
\* (MaxWidth, floor(h*MaxWidth/w)), then (floor(curW*MaxHeight/curH),
\* MaxHeight).
C5_TwoPassFloor ==
    pc = "CompressDone" =>
        <<OutW, OutH>> = FitDimsFloor(InW, InH, opts.MaxWidth, opts.MaxHeight)

\* C6: Compress returns the input image itself, allocating nothing, when no
\* active maximum is exceeded; otherwise it returns a newly allocated image
\* of another size; the input image is left as it was.
C6_IdentityOrNew ==
    pc = "CompressDone" =>
        /\ heap[1] = args
        /\ WithinMaxima => (ret.img = 1 /\ Len(heap) = 1)
        /\ ~WithinMaxima =>
              /\ ret.img = 2
              /\ Len(heap) = 2
              /\ heap[2] # heap[1]

\* Both maxima were set, neither was exceeded, and the input came back.
C6_Witness ==
    /\ pc = "CompressDone"
    /\ opts.MaxWidth > 0
    /\ opts.MaxHeight > 0
    /\ WithinMaxima
    /\ ret.img = 1
    /\ Len(heap) = 1

----------------------------------------------------------------------------
(* Properties of CompressJPEG and CompressFile.                            *)

\* C8: the quality CompressJPEG passes to the encoder is 80 when
\* Options.Quality is <= 0 or > 100, and Options.Quality itself from 1 to 100.
C8_QualityNormalized ==
    pc = "CompressJPEGDone" =>
        /\ Len(encLog) = 1
        /\ (opts.Quality <= 0 \/ opts.Quality > 100) => encLog[1].q = 80
        /\ (1 <= opts.Quality /\ opts.Quality <= 100) => encLog[1].q = opts.Quality

\* A call with Quality 100 encoded at 100.
C8_Witness ==
    /\ pc = "CompressJPEGDone"
    /\ opts.Quality = 100
    /\ encLog[1].q = 100

\* C9 as stated: a CompressFile call in which a step failed (open, decode,
\* create, encode, close) returns a non-nil error.
C9_FailureSurfaced ==
    (pc = "FileDone" /\ failedSteps # {}) => ret.err

====
